---- MODULE Spec2Model ----
(***************************************************************************)
(* A model of the zeal toolchain: the tree-walking evaluator with its      *)
(* scope chain (src/src/interpreter.rs), the indentation-sensitive scanner *)
(* (src/src/scanner.rs) and the recursive-descent parser                   *)
(* (src/src/parser.rs).                                                    *)
(*                                                                         *)
(* An Environment is a Rust value (parent: Option<Box<Environment>>), so   *)
(* clone() is a deep copy; TLA+ values are copied the same way, and the    *)
(* model keeps the struct shape: [parent, values].  Option<T> is modelled  *)
(* as a sequence of length 0 (None) or 1 (Some).                           *)
(***************************************************************************)
EXTENDS Integers, Sequences, FiniteSets, TLC

VARIABLES
    environment,   \* Interpreter.environment
    stack,         \* the interpreter's native call stack: Block / call in progress
    status,        \* "ok", or the panic that aborted the run
    ret,           \* value of the statement interpret() finished last
    steps,         \* number of statements supplied so far
    last_call,     \* history: the lambda whose call returned last, with its scope
    last_expr,     \* history: the statement interpret() took last
    results,       \* the Vec<Value> evaluate() is collecting
    output,        \* Interpreter.output: the lines written to the sink

    stream,        \* Scanner.stream, a sequence of characters
    curr_loc,      \* Scanner.curr_loc
    tokens,        \* Scanner.tokens
    open_block,    \* Scanner.open_block
    block_levels,  \* Scanner.block_levels
    scan_pc,       \* where scan() is: "idle", "scanning", "returned", or the panic
    scanned,       \* the Vec<Token> scan() returned

    parser,        \* Parser.index and Parser.col
    parser_tokens, \* Parser.tokens
    parse_res,     \* res of the parse() in progress, then what it returned
    parse_pc       \* where parse() is: "idle", "parsing", "returned", the
                   \* panic, or "loop" once it can no longer return

ivars == <<environment, stack, status, ret, steps, last_call, last_expr,
          results, output>>

svars == <<stream, curr_loc, tokens, open_block, block_levels, scan_pc, scanned>>

pvars == <<parser, parser_tokens, parse_res, parse_pc>>

vars == <<ivars, svars, pvars>>

----------------------------------------------------------------------------
(* Bounds of the explored programs *)

MaxSteps == 4
MaxDepth == 2

----------------------------------------------------------------------------
(* Option *)

None == <<>>
Some(v) == <<v>>
IsSome(o) == Len(o) = 1
IsNone(o) == Len(o) = 0
Unwrap(o) == o[1]

----------------------------------------------------------------------------
(* parser.rs: Value and Expr *)

IntV(n) == [tag |-> "Int", n |-> n]
BoolV(b) == [tag |-> "Bool", b |-> b]
IdentifierV(name) == [tag |-> "Identifier", name |-> name]
LambdaV(params, body, closure) ==
    [tag |-> "Lambda", params |-> params, body |-> body, closure |-> closure]

StringV(s) == [tag |-> "String", s |-> s]

Literal(value) == [kind |-> "Literal", value |-> value]
Lambda(params, body) == [kind |-> "Lambda", params |-> params, body |-> body]
Declaration(lhs, init) == [kind |-> "Declaration", lhs |-> lhs, init |-> init]
Assignment(lhs, value) == [kind |-> "Assignment", lhs |-> lhs, value |-> value]
If(cond, true_branch, false_branch) ==
    [kind |-> "If", cond |-> cond, true_branch |-> true_branch,
     false_branch |-> false_branch]
FunctionCall(id, args) == [kind |-> "FunctionCall", id |-> id, args |-> args]
Binary(lhs, op, rhs) == [kind |-> "Binary", lhs |-> lhs, op |-> op, rhs |-> rhs]
Unary(op, e) == [kind |-> "Unary", op |-> op, e |-> e]
Group(e) == [kind |-> "Group", e |-> e]
Get(e, name) == [kind |-> "Get", e |-> e, name |-> name]
BuiltinFunction(token) == [kind |-> "BuiltinFunction", token |-> token]
While(cond, body) == [kind |-> "While", cond |-> cond, body |-> body]
\* A Block node; its statement list is supplied one statement at a time
Block == [kind |-> "Block"]

----------------------------------------------------------------------------
(* interpreter.rs: Environment *)

EmptyValues == [n \in {} |-> None]

Environment_default == [parent |-> None, values |-> EmptyValues]

contains_key(values, identifier) == identifier \in DOMAIN values

insert(values, identifier, value) ==
    [n \in (DOMAIN values) \cup {identifier} |->
        IF n = identifier THEN value ELSE values[n]]

RECURSIVE get(_, _)
\* Option<Value>: the nearest binding of identifier on the chain
get(env, identifier) ==
    IF contains_key(env.values, identifier)
    THEN Some(env.values[identifier])
    ELSE IF IsSome(env.parent)
         THEN get(Unwrap(env.parent), identifier)
         ELSE None

\* set as a bug would have it: the binding is made in the innermost scope
set_in_innermost(env, identifier, value) ==
    Some([env EXCEPT !.values = insert(env.values, identifier, value)])

RECURSIVE set(_, _, _)
\* Option<Environment>: None is the panic "assigning to undefined variable"
set(env, identifier, value) ==
    IF ~contains_key(env.values, identifier)
    THEN IF IsNone(env.parent)
         THEN None
         ELSE LET p == set(Unwrap(env.parent), identifier, value)
              IN  IF IsNone(p) THEN None
                  ELSE Some([env EXCEPT !.parent = Some(Unwrap(p))])
    ELSE Some([env EXCEPT !.values = insert(env.values, identifier, value)])

\* define as a bug would have it: an existing binding of an enclosing scope is
\* overwritten instead of shadowed
define_overwrites_outer(env, identifier, value) ==
    IF IsSome(set(env, identifier, value))
    THEN Unwrap(set(env, identifier, value))
    ELSE [env EXCEPT !.values = insert(env.values, identifier, value)]

define(env, identifier, value) ==
    [env EXCEPT !.values = insert(env.values, identifier, value)]

RECURSIVE Chain(_)
\* the values of the scopes of env, innermost first
Chain(env) ==
    IF IsSome(env.parent)
    THEN <<env.values>> \o Chain(Unwrap(env.parent))
    ELSE <<env.values>>

\* the names each scope of env binds, innermost first
Shape(env) == [i \in 1..Len(Chain(env)) |-> DOMAIN Chain(env)[i]]

----------------------------------------------------------------------------
(* interpreter.rs: evaluation of the expressions that need no new frame.   *)
(* A result is [env, value, status]; status # "ok" is the panic raised.    *)

Res(env, value, st) == [env |-> env, value |-> value, status |-> st]

resolve_value(env, value) ==
    IF value.tag = "Identifier"
    THEN IF IsSome(get(env, value.name))
         THEN Res(env, Unwrap(get(env, value.name)), "ok")
         ELSE Res(env, value, "Undefined Variable")
    ELSE Res(env, value, "ok")

\* a step that can panic: r, or what K makes of r when r is "ok"
Then(r, K(_)) == IF r.status # "ok" THEN r ELSE K(r)

RECURSIVE interpret_expr(_, _)

\* interpret_expr followed by resolve_value
interpret_resolved(env, expr) ==
    LET r == interpret_expr(env, expr)
    IN  IF r.status # "ok" THEN r ELSE resolve_value(r.env, r.value)

interpret_decl(env, lhs, init) ==
    IF IsNone(init)
    THEN Res(env, BoolV(FALSE), "TODO: declarations must have initial value")
    ELSE LET i == interpret_resolved(env, Unwrap(init))
         IN  IF i.status # "ok" THEN i
             ELSE LET l == interpret_expr(i.env, lhs)
                  IN  IF l.status # "ok" THEN l
                      ELSE IF l.value.tag # "Identifier"
                      THEN Res(l.env, l.value, "Invalid LHS of declaration")
                      ELSE Res(define(l.env, l.value.name, i.value), i.value, "ok")

interpret_assignment(env, lhs, value) ==
    LET l == interpret_expr(env, lhs)
    IN  IF l.status # "ok" THEN l
        ELSE IF l.value.tag # "Identifier"
        THEN Res(l.env, l.value, "Invalid LHS of assignment")
        ELSE LET v == interpret_resolved(l.env, value)
             IN  IF v.status # "ok" THEN v
                 ELSE LET e == set(v.env, l.value.name, v.value)
                      IN  IF IsNone(e)
                          THEN Res(v.env, v.value,
                                   "Error assigning to undefined variable")
                          ELSE Res(Unwrap(e), v.value, "ok")

I32_MIN == -2147483647 - 1
I32_MAX == 2147483647

\* i32 arithmetic of a build that checks overflow: None is the panic
checked(n) == IF n < I32_MIN \/ n > I32_MAX THEN None ELSE Some(IntV(n))

Abs(n) == IF n < 0 THEN -n ELSE n

\* lhs % rhs and lhs / rhs of i32, which truncate toward zero
rem(lhs, rhs) ==
    IF lhs < 0 THEN -(Abs(lhs) % Abs(rhs)) ELSE lhs % Abs(rhs)
quot(lhs, rhs) ==
    IF (lhs < 0) = (rhs < 0) THEN Abs(lhs) \div Abs(rhs)
    ELSE -(Abs(lhs) \div Abs(rhs))

\* interpret_binary, lines 218-241: Option<Value>, None is a panic
binary_value(token_type, lhs, rhs) ==
    IF lhs.tag = "Int" /\ rhs.tag = "Int"
    THEN CASE token_type = "Minus" -> checked(lhs.n - rhs.n)
           [] token_type = "Plus" -> checked(lhs.n + rhs.n)
           [] token_type = "Star" -> checked(lhs.n * rhs.n)
           [] token_type = "Mod" ->
                IF rhs.n = 0 THEN None ELSE checked(rem(lhs.n, rhs.n))
           [] token_type = "SlashSlash" ->
                IF rhs.n = 0 THEN None ELSE checked(quot(lhs.n, rhs.n))
           [] token_type = "Greater" -> Some(BoolV(lhs.n > rhs.n))
           [] token_type = "GreaterEqual" -> Some(BoolV(lhs.n >= rhs.n))
           [] token_type = "Less" -> Some(BoolV(lhs.n < rhs.n))
           [] token_type = "LessEqual" -> Some(BoolV(lhs.n <= rhs.n))
           [] token_type = "EqualEqual" -> Some(BoolV(lhs.n = rhs.n))
           [] token_type = "BangEqual" -> Some(BoolV(lhs.n # rhs.n))
           [] OTHER -> None
    ELSE IF lhs.tag = "Bool" /\ rhs.tag = "Bool"
    THEN CASE token_type = "AndAnd" -> Some(BoolV(lhs.b /\ rhs.b))
           [] token_type = "OrOr" -> Some(BoolV(lhs.b \/ rhs.b))
           [] token_type = "EqualEqual" -> Some(BoolV(lhs.b = rhs.b))
           [] token_type = "BangEqual" -> Some(BoolV(lhs.b # rhs.b))
           [] OTHER -> None
    ELSE IF lhs.tag = "String" /\ rhs.tag = "String"
    THEN CASE token_type = "EqualEqual" -> Some(BoolV(lhs.s = rhs.s))
           [] token_type = "BangEqual" -> Some(BoolV(lhs.s # rhs.s))
           [] OTHER -> None
    ELSE None

\* interpret_binary, lines 218-241: the match on the operator and the values
binary_result(op, l, r) ==
    IF IsNone(binary_value(op.token_type, l.value, r.value))
    THEN Res(r.env, r.value, "Type error")
    ELSE Res(r.env, Unwrap(binary_value(op.token_type, l.value, r.value)), "ok")

\* interpret_binary as a bug would have it: the right operand of && and ||
\* is interpreted only when the left one does not decide
interpret_binary_short_circuit(env, lhs, op, rhs) ==
    Then(interpret_resolved(env, lhs), LAMBDA l :
      IF l.value.tag = "Bool"
         /\ ((op.token_type = "AndAnd" /\ ~l.value.b)
             \/ (op.token_type = "OrOr" /\ l.value.b))
      THEN l
      ELSE Then(interpret_resolved(l.env, rhs),
                LAMBDA r : binary_result(op, l, r)))

interpret_binary(env, lhs, op, rhs) ==
    Then(interpret_resolved(env, lhs), LAMBDA l :
      Then(interpret_resolved(l.env, rhs), LAMBDA r : binary_result(op, l, r)))

\* interpret_unary, lines 205-209: the match on the operator and the value
unary_result(op, v) ==
    IF op.token_type = "Minus" /\ v.value.tag = "Int"
    THEN IF IsNone(checked(-v.value.n))
         THEN Res(v.env, v.value, "attempt to negate with overflow")
         ELSE Res(v.env, Unwrap(checked(-v.value.n)), "ok")
    ELSE IF op.token_type = "Bang" /\ v.value.tag = "Bool"
    THEN Res(v.env, BoolV(~v.value.b), "ok")
    ELSE Res(v.env, v.value, "Type error")

interpret_unary(env, op, e) ==
    Then(interpret_resolved(env, e), LAMBDA v : unary_result(op, v))

\* The branch interpret_if evaluates: Some(branch), or None for the panic
\* "if expression must have else"
if_branch(cond, true_branch, false_branch) ==
    IF cond.tag = "Bool" /\ cond.b
    THEN Some(true_branch)
    ELSE false_branch

interpret_expr(env, expr) ==
    CASE expr.kind = "Literal" -> Res(env, expr.value, "ok")
      [] expr.kind = "Lambda" ->
            Res(env, LambdaV(expr.params, expr.body, env), "ok")
      [] expr.kind = "Declaration" -> interpret_decl(env, expr.lhs, expr.init)
      [] expr.kind = "Assignment" ->
            interpret_assignment(env, expr.lhs, expr.value)
      [] expr.kind = "If" ->
            LET c == interpret_resolved(env, expr.cond)
            IN  IF c.status # "ok" THEN c
                ELSE LET b == if_branch(c.value, expr.true_branch,
                                        expr.false_branch)
                     IN  IF IsNone(b)
                         THEN Res(c.env, c.value,
                                  "TODO: if expression must have else")
                         ELSE interpret_expr(c.env, Unwrap(b))

      [] expr.kind = "Group" -> interpret_expr(env, expr.e)
      [] expr.kind = "Binary" ->
            interpret_binary(env, expr.lhs, expr.op, expr.rhs)
      [] expr.kind = "Unary" -> interpret_unary(env, expr.op, expr.e)
      [] OTHER -> Res(env, BoolV(FALSE), "todo")

\* interpret_call, lines 118-127: binds params[i..] to the values of args[i..],
\* the arguments being interpreted in env (the caller's scope)
RECURSIVE bind_params(_, _, _, _, _)
bind_params(env, new_env, params, args, i) ==
    IF i > Len(params) \/ i > Len(args)
    THEN [env |-> env, new_env |-> new_env, status |-> "ok"]
    ELSE LET p == interpret_expr(env, params[i])
         IN  IF p.status # "ok" \/ p.value.tag # "Identifier"
             THEN [env |-> p.env, new_env |-> new_env,
                   status |-> "Invalid function parameter"]
             ELSE LET a == interpret_resolved(p.env, args[i])
                  IN  IF a.status # "ok"
                      THEN [env |-> a.env, new_env |-> new_env,
                            status |-> a.status]
                      ELSE bind_params(a.env,
                                       define(new_env, p.value.name, a.value),
                                       params, args, i + 1)

\* call_env as a bug would have it: the body runs in a child of the scope of
\* the call site (dynamic scoping)
call_env_of_caller(closure) ==
    [parent |-> Some(environment), values |-> EmptyValues]

\* interpret_call, lines 113-116
call_env(closure) == [parent |-> Some(closure), values |-> EmptyValues]

----------------------------------------------------------------------------
(* The programs supplied to evaluate *)

Names == {"x", "y", "f"}
IntVals == {0, 1}

Id(n) == Literal(IdentifierV(n))
Num(v) == Literal(IntV(v))

Bodies ==
    { <<>>,
      <<Assignment(Id("x"), Num(1))>>,
      <<Assignment(Id("x"), Id("y"))>>,
      <<Declaration(Id("x"), Some(Num(1))), Assignment(Id("x"), Num(0))>> }

LambdaExprs ==
    {Lambda(<<>>, b) : b \in Bodies}
    \cup {Lambda(<<Id("y")>>, <<Assignment(Id("x"), Id("y"))>>),
          Lambda(<<Num(0)>>, <<Id("x")>>)}

DeclStmts ==
    {Declaration(Id("x"), Some(Num(v))) : v \in IntVals}
    \cup {Declaration(Id("y"), Some(Num(0)))}
    \cup {Declaration(Id("f"), Some(e)) : e \in LambdaExprs}
    \cup {Declaration(Id("x"), None), Declaration(Num(0), Some(Num(1)))}

AssignStmts ==
    {Assignment(Id("x"), Num(v)) : v \in IntVals}
    \cup {Assignment(Id("y"), Num(1)), Assignment(Id("x"), Id("y")),
          Assignment(Num(0), Num(1))}

ReadStmts == {Id("x")}

CondExprs == {Literal(BoolV(TRUE)), Literal(BoolV(FALSE)), Num(0)}

IfStmts ==
    {If(c, t, e) : c \in CondExprs,
                   t \in {Block, Assignment(Id("x"), Num(1))},
                   e \in {None, Some(Assignment(Id("x"), Num(0)))}}

CallStmts ==
    {FunctionCall(Id("f"), a) : a \in {<<>>, <<Num(1)>>, <<Id("x")>>}}
    \cup {FunctionCall(Id("x"), <<>>)}

Stmts == DeclStmts \cup AssignStmts \cup ReadStmts \cup IfStmts
         \cup CallStmts \cup {Block}

----------------------------------------------------------------------------
(* The interpreter as a state machine.  A frame of stack is a Block whose  *)
(* statements are being interpreted (lines 83-91) or an interpret_call     *)
(* that is running the body (lines 129-135).                               *)

Top == stack[Len(stack)]
Pop == SubSeq(stack, 1, Len(stack) - 1)
InCall == stack # <<>> /\ Top.kind = "Call"
InWhile == stack # <<>> /\ Top.kind = "While"

\* history: entered is the Shape of the environment the Block was entered in
BlockFrame == [kind |-> "Block", outer |-> EmptyValues, entered |-> <<>>]
CallFrame(func, old_env) ==
    [kind |-> "Call", old_env |-> old_env, body |-> func.body, pc |-> 1,
     func |-> func]

\* expr is the statement interpret() takes next: the next one of the running
\* body, or one supplied by the program being evaluated
Next_expr(expr) ==
    /\ status = "ok"
    /\ ~InWhile
    /\ IF InCall
       THEN Top.pc <= Len(Top.body) /\ expr = Top.body[Top.pc]
       ELSE steps < MaxSteps

\* the stack once interpret() has taken its next statement
Taken == IF InCall THEN [stack EXCEPT ![Len(stack)].pc = @ + 1] ELSE stack

Count(expr) ==
    /\ steps' = IF InCall THEN steps ELSE steps + 1
    /\ last_call' = IF InCall THEN last_call ELSE None
    /\ last_expr' = expr
    /\ UNCHANGED <<output, svars, pvars>>

\* interpret(), lines 54-60: collect() of the top-level interpret() takes the
\* value of a statement of the program; stk is the stack the statement leaves
Collect(stk, value) == IF stk = <<>> THEN Append(results, value) ELSE results

Finish_unresolved(r, stk) ==
    /\ environment' = r.env
    /\ status' = r.status
    /\ ret' = IF r.status = "ok" THEN Some(r.value) ELSE ret
    /\ stack' = stk
    /\ results' = IF r.status = "ok" THEN Collect(stk, r.value) ELSE results

\* interpret(), lines 57-58, for a statement whose result is r
Finish(r, stk) ==
    LET v == IF r.status = "ok" THEN resolve_value(r.env, r.value) ELSE r
    IN  /\ environment' = v.env
        /\ status' = v.status
        /\ ret' = IF v.status = "ok" THEN Some(v.value) ELSE ret
        /\ stack' = stk
        /\ results' = IF v.status = "ok" THEN Collect(stk, v.value) ELSE results

\* history: the binding of name in the enclosing scopes, noted in the frame of
\* the Block that declares name
Note_outer(stk, expr) ==
    IF stk # <<>> /\ stk[Len(stk)].kind = "Block"
       /\ expr.lhs.kind = "Literal" /\ expr.lhs.value.tag = "Identifier"
       /\ IsSome(environment.parent)
    THEN [stk EXCEPT ![Len(stk)].outer =
            insert(@, expr.lhs.value.name,
                   get(Unwrap(environment.parent), expr.lhs.value.name))]
    ELSE stk

Interpret_literal(expr) ==
    /\ Next_expr(expr)
    /\ expr.kind = "Literal"
    /\ Finish(interpret_expr(environment, expr), Taken)
    /\ Count(expr)

Interpret_decl(expr) ==
    /\ Next_expr(expr)
    /\ expr.kind = "Declaration"
    /\ Finish(interpret_expr(environment, expr), Note_outer(Taken, expr))
    /\ Count(expr)

Interpret_assignment(expr) ==
    /\ Next_expr(expr)
    /\ expr.kind = "Assignment"
    /\ Finish(interpret_expr(environment, expr), Taken)
    /\ Count(expr)

\* Expr::Block, lines 84-86
Enter_block_env(env) == [parent |-> Some(env), values |-> EmptyValues]

Push_block(stk) ==
    /\ environment' = Enter_block_env(environment)
    /\ stack' = Append(stk, [BlockFrame EXCEPT !.entered = Shape(environment)])
    /\ UNCHANGED <<status, ret, results>>

Interpret_block(expr) ==
    /\ Next_expr(expr)
    /\ expr.kind = "Block"
    /\ Len(stack) < MaxDepth
    /\ Push_block(Taken)
    /\ Count(expr)

Exit_block_env_kept(env) == env

\* Expr::Block, lines 87-90: the Block's statements are exhausted
Exit_block_env(env) == Unwrap(env.parent)

Exit_block ==
    /\ status = "ok"
    /\ stack # <<>> /\ Top.kind = "Block"
    /\ environment' = Exit_block_env(environment)
    /\ ret' = Some(BoolV(FALSE))
    /\ stack' = Pop
    /\ results' = Collect(Pop, BoolV(FALSE))
    /\ last_expr' = [kind |-> "ExitBlock"]
    /\ UNCHANGED <<status, steps, last_call, output, svars, pvars>>

Interpret_if(expr) ==
    /\ Next_expr(expr)
    /\ expr.kind = "If"
    /\ LET c == interpret_resolved(environment, expr.cond)
           b == if_branch(c.value, expr.true_branch, expr.false_branch)
       IN  IF c.status = "ok" /\ IsSome(b) /\ Unwrap(b).kind = "Block"
           THEN Len(stack) < MaxDepth /\ Push_block(Taken)
           ELSE Finish(interpret_expr(environment, expr), Taken)
    /\ Count(expr)

\* interpret_call, lines 106-129
Interpret_call(expr) ==
    /\ Next_expr(expr)
    /\ expr.kind = "FunctionCall"
    /\ expr.id.kind # "BuiltinFunction"
    /\ Len(stack) < MaxDepth
    /\ LET func == interpret_resolved(environment, expr.id)
       IN  IF func.status # "ok"
           THEN Finish(func, Taken)
           ELSE IF func.value.tag # "Lambda"
           THEN Finish(Res(func.env, func.value, "Error: Not a function"), Taken)
           ELSE LET b == bind_params(func.env, call_env(func.value.closure),
                                     func.value.params, expr.args, 1)
                IN  IF b.status # "ok"
                    THEN Finish(Res(b.env, func.value, b.status), Taken)
                    ELSE /\ environment' = b.new_env
                         /\ stack' = Append(Taken, CallFrame(func.value, b.env))
                         /\ UNCHANGED <<status, ret, results>>
    /\ steps' = IF InCall THEN steps ELSE steps + 1
    /\ last_expr' = expr
    /\ UNCHANGED <<last_call, output, svars, pvars>>

RECURSIVE Write_back(_, _)
\* env with every binding it shares with src given src's value
Write_back(env, src) ==
    [parent |-> IF IsSome(env.parent)
                THEN Some(Write_back(Unwrap(env.parent), src))
                ELSE None,
     values |-> [n \in DOMAIN env.values |->
                    IF IsSome(get(src, n)) THEN Unwrap(get(src, n))
                    ELSE env.values[n]]]

\* Return_env as a bug would have it: what the body assigned reaches the caller
Return_env_shared(old_env, body_env) == Write_back(old_env, body_env)

\* interpret_call, line 135
Return_env(old_env, body_env) == old_env

\* interpret_call, lines 131-137: the body is exhausted
Return_call ==
    /\ status = "ok"
    /\ InCall
    /\ Top.pc > Len(Top.body)
    /\ IF Len(Top.body) = 0
       THEN /\ status' = "TODO: Functions must have implicit return"
            /\ UNCHANGED <<environment, stack, ret, last_call, results>>
       ELSE /\ environment' = Return_env(Top.old_env, environment)
            /\ stack' = Pop
            /\ last_call' = Some([func |-> Top.func, env |-> environment])
            /\ results' = Collect(Pop, Unwrap(ret))
            /\ UNCHANGED <<status, ret>>
    /\ last_expr' = [kind |-> "Return"]
    /\ UNCHANGED <<steps, output, svars, pvars>>

\* interpret_while, line 181: `while let Value::Bool(true) = cond_val`
while_continues(cond_val) == cond_val.tag = "Bool" /\ cond_val.b

WhileFrame(cond, body) == [kind |-> "While", cond |-> cond, body |-> body]

\* interpret_while, lines 179-181: the condition is evaluated, and the loop
\* entered or left
Interpret_while(expr) ==
    /\ Next_expr(expr)
    /\ expr.kind = "While"
    /\ Len(stack) < MaxDepth
    /\ LET c == interpret_resolved(environment, expr.cond)
       IN  IF c.status = "ok" /\ while_continues(c.value)
           THEN /\ environment' = c.env
                /\ stack' = Append(Taken, WhileFrame(expr.cond, expr.body))
                /\ UNCHANGED <<status, ret, results>>
           ELSE Finish(IF c.status = "ok" THEN Res(c.env, BoolV(FALSE), "ok")
                                          ELSE c,
                       Taken)
    /\ Count(expr)

\* what a turn of the loop leaves: r is the result of the body, and of the
\* condition evaluated after it when the body did not panic
While_next(r) ==
    /\ environment' = r.env
    /\ status' = r.status
    /\ IF r.status = "ok" /\ ~while_continues(r.value)
       THEN /\ stack' = Pop
            /\ ret' = Some(BoolV(FALSE))
            /\ results' = Collect(Pop, BoolV(FALSE))
       ELSE UNCHANGED <<stack, ret, results>>

\* interpret_while, lines 182-185 and 187: the body, then the condition
While_body(env, cond, body) ==
    IF interpret_expr(env, body).status # "ok"
    THEN interpret_expr(env, body)
    ELSE interpret_resolved(interpret_expr(env, body).env, cond)

While_turn ==
    /\ status = "ok"
    /\ stack # <<>> /\ Top.kind = "While"
    /\ While_next(While_body(environment, Top.cond, Top.body))
    /\ last_expr' = [kind |-> "WhileTurn"]
    /\ UNCHANGED <<steps, last_call, output, svars, pvars>>

\* interpret_builtin, lines 154-158: [env, values, status], the values of
\* args interpreted and resolved from the i-th on, after values
RECURSIVE interpret_args(_, _, _, _)
interpret_args(env, args, i, values) ==
    IF i > Len(args)
    THEN [env |-> env, status |-> "ok",
          values |-> [k \in 1..Len(values) |->
                        resolve_value(env, values[k]).value]]
    ELSE LET a == interpret_resolved(env, args[i])
         IN  IF a.status # "ok"
             THEN [env |-> a.env, values |-> values, status |-> a.status]
             ELSE interpret_args(a.env, args, i + 1, Append(values, a.value))

\* writeln! as a bug would have it: nothing reaches the sink
writeln_lost(out, args) == out

\* interpret_builtin, line 161: writeln!(self.output, "{args:?}") appends one
\* line, the Debug form of the Vec of the values
writeln(out, args) == Append(out, args)

\* interpret_builtin, lines 160-164: a is what interpret_args made
Builtin_done(token, a) ==
    IF a.status # "ok"
    THEN /\ Finish(Res(a.env, BoolV(FALSE), a.status), Taken)
         /\ output' = output
    ELSE IF token.token_type # "Print"
    THEN /\ Finish(Res(a.env, BoolV(FALSE), "Unknown builtin"), Taken)
         /\ output' = output
    ELSE /\ Finish(Res(a.env, BoolV(FALSE), "ok"), Taken)
         /\ output' = writeln(output, a.values)

\* interpret_call, lines 102-104, and interpret_builtin
Interpret_builtin(expr) ==
    /\ Next_expr(expr)
    /\ expr.kind = "FunctionCall"
    /\ expr.id.kind = "BuiltinFunction"
    /\ Builtin_done(expr.id.token, interpret_args(environment, expr.args, 1, <<>>))
    /\ steps' = IF InCall THEN steps ELSE steps + 1
    /\ last_call' = IF InCall THEN last_call ELSE None
    /\ last_expr' = expr
    /\ UNCHANGED <<svars, pvars>>

\* Expr::Group, Expr::Binary and Expr::Unary, lines 77-79
Interpret_operator(expr) ==
    /\ Next_expr(expr)
    /\ expr.kind \in {"Group", "Binary", "Unary"}
    /\ Finish(interpret_expr(environment, expr), Taken)
    /\ Count(expr)

----------------------------------------------------------------------------
(* scanner.rs: the Scanner.  A character is a string of length 1; a Scanner *)
(* is the record of its fields, [curr_loc, tokens, open_block,              *)
(* block_levels], with failed set by a panic.                               *)

Whitespace == {"\n", " ", "\t", "\r"}
Digits == {"0", "1", "2", "3", "4", "5", "6", "7", "8", "9"}
Letters == {"a", "b", "c", "d", "e", "f", "g", "h", "i", "j", "k", "l", "m",
            "n", "o", "p", "q", "r", "s", "t", "u", "v", "w", "x", "y", "z"}

Location(line, col, index) == [line |-> line, col |-> col, index |-> index]

\* lexeme is the String of an Identifier or String token, int the i32 of an Int
Token(token_type, lexeme, int, location) ==
    [token_type |-> token_type, lexeme |-> lexeme, int |-> int,
     location |-> location]

Scanner_new ==
    [curr_loc |-> Location(0, 0, 0), tokens |-> <<>>, open_block |-> None,
     block_levels |-> <<>>, failed |-> "ok"]

Fail(sc, why) == IF sc.failed = "ok" THEN [sc EXCEPT !.failed = why] ELSE sc

emit_token(sc, token_type, lexeme) ==
    [sc EXCEPT !.tokens = Append(@, Token(token_type, lexeme, 0, sc.curr_loc))]

\* Option<char>: the character at curr_loc.index
peek(sc, text) ==
    IF sc.curr_loc.index >= Len(text)
    THEN None
    ELSE Some(text[sc.curr_loc.index + 1])

\* the Scanner once next() has returned peek(sc, text)
next(sc, text) ==
    IF IsNone(peek(sc, text))
    THEN sc
    ELSE LET c == Unwrap(peek(sc, text))
             l == sc.curr_loc
         IN  [sc EXCEPT !.curr_loc =
                CASE c = "\n" -> Location(l.line + 1, 0, l.index + 1)
                  [] c = "\t" -> Location(l.line, l.col + 4, l.index + 1)
                  [] OTHER -> Location(l.line, l.col + 1, l.index + 1)]

emit_open_block_unchecked(sc) ==
    emit_token([sc EXCEPT !.open_block = None,
                          !.block_levels = Append(@, sc.curr_loc.col)],
               "BeginBlock", <<>>)

emit_open_block(sc) ==
    IF sc.block_levels # <<>>
       /\ sc.block_levels[Len(sc.block_levels)] >= sc.curr_loc.col
    THEN Fail(sc, "todo: Handle error here")
    ELSE emit_token([sc EXCEPT !.open_block = None,
                               !.block_levels = Append(@, sc.curr_loc.col)],
                    "BeginBlock", <<>>)

RECURSIVE emit_closed_blocks_at_or_above(_)
\* emit_closed_blocks as a bug would have it: a level at the current column is
\* closed too
emit_closed_blocks_at_or_above(sc) ==
    IF sc.block_levels = <<>>
    THEN sc
    ELSE IF sc.block_levels[Len(sc.block_levels)] < sc.curr_loc.col
    THEN sc
    ELSE emit_closed_blocks_at_or_above(
            [sc EXCEPT !.block_levels = SubSeq(@, 1, Len(@) - 1),
                       !.tokens = Append(@, Token("EndBlock", <<>>, 0,
                                                  sc.curr_loc))])

RECURSIVE emit_closed_blocks(_)
emit_closed_blocks(sc) ==
    IF sc.block_levels = <<>>
    THEN sc
    ELSE IF sc.block_levels[Len(sc.block_levels)] <= sc.curr_loc.col
    THEN sc
    ELSE emit_closed_blocks(
            emit_token([sc EXCEPT !.block_levels =
                                    SubSeq(@, 1, Len(@) - 1)],
                       "EndBlock", <<>>))

RECURSIVE emit_string(_, _, _, _)
\* value is the string read so far
emit_string(sc, text, boundary, value) ==
    IF IsNone(peek(sc, text))
    THEN Fail(sc, "todo: Handle error here")
    ELSE LET c == Unwrap(peek(sc, text))
         IN  IF c = boundary
             THEN emit_token(next(sc, text), "String", value)
             ELSE emit_string(next(sc, text), text, boundary, Append(value, c))


Digit(c) == CHOOSE d \in 0..9 : ToString(d) = c

RECURSIVE parse_i32(_)
\* str::parse::<i32> of a run of digits: the number, or -1 for the overflow Err
parse_i32(value) ==
    IF value = <<>> THEN 0
    ELSE LET high == parse_i32(SubSeq(value, 1, Len(value) - 1))
             d == Digit(value[Len(value)])
         IN  IF high < 0 \/ high > I32_MAX \div 10
                \/ (high = I32_MAX \div 10 /\ d > I32_MAX % 10)
             THEN -1
             ELSE 10 * high + d

RECURSIVE emit_int(_, _, _)
\* value is the digits read so far
emit_int(sc, text, value) ==
    IF IsSome(peek(sc, text)) /\ Unwrap(peek(sc, text)) \in Digits
    THEN emit_int(next(sc, text), text, Append(value, Unwrap(peek(sc, text))))
    ELSE IF parse_i32(value) < 0
         THEN Fail(sc, "Failed to parse int")
         ELSE [sc EXCEPT !.tokens =
                 Append(@, Token("Int", <<>>, parse_i32(value), sc.curr_loc))]

identifier_symbol(c) ==
    c \in {"-", ">", "<", "+", "/", "%", "&", "|", "!", "=", "*"}

identifier_character(c) == c \in Letters \cup Digits \cup {"_"}

RECURSIVE scan_identifier(_, _, _, _)
\* [sc, value]: value is the lexeme read so far
scan_identifier(sc, text, first, value) ==
    IF IsNone(peek(sc, text))
    THEN [sc |-> sc, value |-> value]
    ELSE LET c == Unwrap(peek(sc, text))
         IN  IF (identifier_character(first) /\ ~identifier_character(c))
                \/ (identifier_symbol(first) /\ ~identifier_symbol(c))
             THEN [sc |-> sc, value |-> value]
             ELSE scan_identifier(next(sc, text), text, first, Append(value, c))

\* scan(), lines 245-282: the token type of a lexeme
Keyword(id) ==
    CASE id = <<"!", "=">> -> "BangEqual"
      [] id = <<"!">> -> "Bang"
      [] id = <<"=">> -> "Equal"
      [] id = <<"=", "=">> -> "EqualEqual"
      [] id = <<"<", "=">> -> "LessEqual"
      [] id = <<"<">> -> "Less"
      [] id = <<">">> -> "Greater"
      [] id = <<">", "=">> -> "GreaterEqual"
      [] id = <<"&">> -> "And"
      [] id = <<"&", "&">> -> "AndAnd"
      [] id = <<"|">> -> "Or"
      [] id = <<"|", "|">> -> "OrOr"
      [] id = <<"/">> -> "Slash"
      [] id = <<"/", "/">> -> "SlashSlash"
      [] id = <<"%">> -> "Mod"
      [] id = <<"%", "%">> -> "ModMod"
      [] id = <<"-">> -> "Minus"
      [] id = <<"+">> -> "Plus"
      [] id = <<"*">> -> "Star"
      [] id = <<"|", ">">> -> "Pipeline"
      [] id = <<"-", ">">> -> "ThinArrow"
      [] id = <<"f", "a", "l", "s", "e">> -> "False"
      [] id = <<"t", "r", "u", "e">> -> "True"
      [] id = <<"f", "n">> -> "Fn"
      [] id = <<"f", "o", "r">> -> "For"
      [] id = <<"w", "h", "i", "l", "e">> -> "While"
      [] id = <<"r", "e", "t", "u", "r", "n">> -> "Return"
      [] id = <<"p", "r", "i", "n", "t">> -> "Print"
      [] id = <<"i", "f">> -> "If"
      [] id = <<"t", "h", "e", "n">> -> "Then"
      [] id = <<"e", "l", "s", "e">> -> "Else"
      [] OTHER -> "Identifier"

\* scan(), lines 209-221: before the token that starts with c
track_blocks(sc, c) ==
    IF c \in Whitespace
    THEN sc
    ELSE LET opened ==
               IF IsSome(sc.open_block)
               THEN IF sc.curr_loc.line = Unwrap(sc.open_block).line
                    THEN [sc EXCEPT !.open_block = None]
                    ELSE emit_open_block(sc)
               ELSE sc
         IN  IF opened.failed # "ok" THEN opened
             ELSE IF opened.block_levels # <<>>
                  THEN emit_closed_blocks(opened)
                  ELSE opened

\* scan(), lines 223-284: the token that starts with c
scan_token(sc, text, c) ==
    CASE c = "(" -> emit_token(sc, "LeftParen", <<>>)
      [] c = ")" -> emit_token(sc, "RightParen", <<>>)
      [] c = "{" -> emit_token(sc, "RightBrace", <<>>)
      [] c = "}" -> emit_token(sc, "LeftBrace", <<>>)
      [] c = "," -> emit_token(sc, "Comma", <<>>)
      [] c = "." -> emit_token(sc, "Dot", <<>>)
      [] c = ";" -> emit_token(sc, "Semicolon", <<>>)
      [] c = ":" -> emit_token([sc EXCEPT !.open_block = Some(sc.curr_loc)],
                               "Colon", <<>>)
      [] c \in Whitespace -> sc
      [] c = "\"" -> emit_string(sc, text, "\"", <<>>)
      [] c = "'" -> emit_string(sc, text, "'", <<>>)
      [] c \in Digits -> emit_int(sc, text, <<c>>)
      [] OTHER ->
            LET id == scan_identifier(sc, text, c, <<c>>)
                kw == Keyword(id.value)
            IN  IF kw = "ThinArrow"
                THEN emit_token([id.sc EXCEPT
                                    !.open_block = Some(id.sc.curr_loc)],
                                kw, <<>>)
                ELSE emit_token(id.sc, kw,
                                IF kw = "Identifier" THEN id.value ELSE <<>>)

\* scan(), lines 208-285: one turn of the loop
scan_char(sc, text) ==
    LET c == Unwrap(peek(sc, text))
        tracked == track_blocks(next(sc, text), c)
    IN  IF tracked.failed # "ok" THEN tracked
        ELSE scan_token(tracked, text, c)

USIZE_BITS == 64

RECURSIVE Bit(_, _)
\* bit b of n
Bit(n, b) == IF b = 0 THEN n % 2 ELSE Bit(n \div 2, b - 1)

\* `!n == 0` for a usize n: ! is the bitwise complement, which is 0 when every
\* bit of n is set
not_is_zero(n) == \A b \in 0..(USIZE_BITS - 1) : Bit(n, b) = 1

emit_end_of_file(sc) ==
    emit_closed_blocks(
        IF not_is_zero(sc.curr_loc.col)
        THEN [sc EXCEPT !.curr_loc =
                Location(sc.curr_loc.line + 1, 0, sc.curr_loc.index)]
        ELSE sc)

----------------------------------------------------------------------------
(* The texts supplied to scan: up to MaxLines lines, each an indentation, a *)
(* name and maybe a colon, or blank; the last line with or without its      *)
(* newline.  Beside them, the one-line texts of up to MaxChars characters.  *)

MaxLines == 4

Indents == {<<>>, <<" ">>, <<" ", " ">>}
Contents == {<<"a">>, <<"a", ":">>}
Lines == {i \o c : i \in Indents, c \in Contents} \cup {<<>>}

RECURSIVE TextsOf(_)
\* the texts of n lines, each ended by a newline
TextsOf(n) ==
    IF n = 0 THEN {<<>>}
    ELSE {t \o l \o <<"\n">> : t \in TextsOf(n - 1), l \in Lines}

Texts ==
    UNION {TextsOf(n) : n \in 0..MaxLines}
    \cup UNION {{t \o l : t \in TextsOf(n - 1), l \in Lines \ {<<>>}} :
                   n \in 1..MaxLines}

MaxChars == 3

\* a letter, a digit, two symbols, a character of neither alphabet, a blank
Chars == {"a", "1", "+", "=", "@", " "}

\* the one-line texts of up to MaxChars characters
WordTexts == UNION {[1..n -> Chars] : n \in 1..MaxChars}

----------------------------------------------------------------------------
(* The scanner as a state machine *)

Sc == [curr_loc |-> curr_loc, tokens |-> tokens, open_block |-> open_block,
       block_levels |-> block_levels, failed |-> "ok"]

Becomes(sc) ==
    /\ curr_loc' = sc.curr_loc
    /\ tokens' = sc.tokens
    /\ open_block' = sc.open_block
    /\ block_levels' = sc.block_levels

\* scan(), line 207
Scan ==
    /\ scan_pc = "idle"
    /\ \E line \in Texts \cup WordTexts : stream' = line
    /\ scan_pc' = "scanning"
    /\ UNCHANGED <<curr_loc, tokens, open_block, block_levels, scanned, ivars, pvars>>

\* scan(), lines 208-285
Scan_char ==
    /\ scan_pc = "scanning"
    /\ IsSome(peek(Sc, stream))
    /\ LET sc == scan_char(Sc, stream)
       IN  /\ Becomes(sc)
           /\ scan_pc' = IF sc.failed = "ok" THEN "scanning" ELSE sc.failed
    /\ UNCHANGED <<stream, scanned, ivars, pvars>>

\* scan(), lines 286-287
Scan_return ==
    /\ scan_pc = "scanning"
    /\ IsNone(peek(Sc, stream))
    /\ LET sc == emit_end_of_file(Sc)
       IN  /\ Becomes([sc EXCEPT !.tokens = <<>>])
           /\ scanned' = sc.tokens
    /\ scan_pc' = "returned"
    /\ UNCHANGED <<stream, ivars, pvars>>

\* the texts a Scanner that has returned is handed beside the text it has
\* just scanned
AgainTexts == {<<"a">>, <<"a", " ", "a">>, <<"a", ":", "\n", " ", "a">>}

\* scan(), line 207, on a Scanner that has scanned before: only stream is
\* assigned; curr_loc, open_block and block_levels stay as the last scan
\* left them
Scan_again ==
    /\ scan_pc = "returned"
    /\ \E line \in {stream} \cup AgainTexts : stream' = line
    /\ scan_pc' = "scanning"
    /\ UNCHANGED <<curr_loc, tokens, open_block, block_levels, scanned, ivars, pvars>>

RECURSIVE scan_from(_, _)
\* scan(), lines 208-286: the Scanner once the loop has ended and
\* emit_end_of_file has run, or the Scanner that panicked
scan_from(sc, text) ==
    IF sc.failed # "ok" THEN sc
    ELSE IF IsNone(peek(sc, text)) THEN emit_end_of_file(sc)
    ELSE scan_from(scan_char(sc, text), text)

Scanner_default ==
    /\ stream = <<>>
    /\ curr_loc = Scanner_new.curr_loc
    /\ tokens = Scanner_new.tokens
    /\ open_block = Scanner_new.open_block
    /\ block_levels = Scanner_new.block_levels
    /\ scan_pc = "idle"
    /\ scanned = <<>>

----------------------------------------------------------------------------
(* parser.rs: the Parser.  A Parser is the record [index, col] of its       *)
(* fields beside tokens; every method returns [ps, expr, status], the       *)
(* Parser it leaves, what it built, and "ok", the panic it raised, or       *)
(* "loop" when it never returns.  A loop of the source is a recursive       *)
(* operator; the turns of a loop depend on index and col only, so a turn    *)
(* that ends "ok" where it began repeats forever.                           *)

BlockOf(exprs) == [kind |-> "Block", exprs |-> exprs]

Parser_new == [index |-> 0, col |-> 0]

R(ps, expr, st) == [ps |-> ps, expr |-> expr, status |-> st]
NoExpr == [kind |-> "None"]

check(toks, ps, token_type) ==
    ps.index < Len(toks) /\ toks[ps.index + 1].token_type = token_type

\* the Parser once advance() has returned
advance(toks, ps) ==
    IF ps.index < Len(toks) THEN [ps EXCEPT !.index = @ + 1] ELSE ps

\* Option<Token>: tokens[index - 1]; None is the panic of the index
previous(toks, ps) ==
    IF ps.index >= 1 /\ ps.index <= Len(toks) THEN Some(toks[ps.index]) ELSE None

parser_peek(toks, ps) ==
    IF ps.index >= Len(toks) THEN None ELSE Some(toks[ps.index + 1])

peek_next(toks, ps) ==
    IF ps.index + 1 >= Len(toks) THEN None ELSE Some(toks[ps.index + 2])

\* whether matches(tokens) is true; the Parser then is advance(toks, ps)
matches(toks, ps, token_types) ==
    \E t \in token_types : check(toks, ps, t)

\* whether matches_all(tokens) is true; the Parser then is skip(ps, Len)
matches_all(toks, ps, token_types) ==
    /\ ps.index + Len(token_types) <= Len(toks)
    /\ \A i \in 1..Len(token_types) :
         token_types[i] = toks[i + ps.index].token_type

skip(ps, n) == [ps EXCEPT !.index = @ + n]

\* matches_over_line(token): [ps, matched]
matches_over_line(toks, ps, token_type) ==
    IF matches(toks, ps, {token_type})
    THEN [ps |-> advance(toks, ps), matched |-> TRUE]
    ELSE IF matches_all(toks, ps, <<"LineEnd", token_type>>)
    THEN [ps |-> skip(ps, 2), matched |-> TRUE]
    ELSE [ps |-> ps, matched |-> FALSE]

matches_continued_at_any_column(toks, ps, token_type) ==
    matches_over_line(toks, ps, token_type)

\* logical_or / logical_and, lines 242-246: [ps, matched]
matches_continued(toks, ps, token_type) ==
    IF matches(toks, ps, {token_type})
    THEN [ps |-> advance(toks, ps), matched |-> TRUE]
    ELSE IF /\ IsSome(peek_next(toks, ps))
            /\ ps.col < Unwrap(peek_next(toks, ps)).location.col
            /\ matches_all(toks, ps, <<"LineEnd", token_type>>)
    THEN [ps |-> skip(ps, 2), matched |-> TRUE]
    ELSE [ps |-> ps, matched |-> FALSE]

RECURSIVE block(_, _, _), control_expression(_, _), statement(_, _),
          expression(_, _), pipeline(_, _), pipeline_rest(_, _, _),
          logical_or(_, _), logical_or_rest(_, _, _),
          logical_and(_, _), logical_and_rest(_, _, _),
          equality(_, _), equality_rest(_, _, _),
          comparison(_, _), comparison_rest(_, _, _),
          term(_, _), term_rest(_, _, _),
          factor(_, _), factor_rest(_, _, _),
          unary(_, _), call(_, _), call_rest(_, _, _),
          arguments(_, _), arguments_block(_, _, _), arguments_line(_, _, _),
          primary(_, _), function_decl(_, _), function_params(_, _, _)

\* block(), lines 98-100: res is the statements parsed so far
block(toks, ps, res) ==
    IF matches(toks, ps, {"EndBlock"})
    THEN R(advance(toks, ps), BlockOf(res), "ok")
    ELSE Then(statement(toks, ps),
              LAMBDA s : IF s.ps = ps THEN R(s.ps, NoExpr, "loop")
                         ELSE block(toks, s.ps, Append(res, s.expr)))

\* the body of a While or an If: a block or one expression
body(toks, ps) ==
    IF matches(toks, ps, {"BeginBlock"})
    THEN block(toks, advance(toks, ps), <<>>)
    ELSE expression(toks, ps)

\* control_expression(), lines 136-147
else_branch(toks, ps) ==
    IF matches(toks, ps, {"Colon"})
    THEN IF ~matches(toks, advance(toks, ps), {"BeginBlock"})
         THEN R(advance(toks, ps), NoExpr, "Expected block after else")
         ELSE block(toks, advance(toks, advance(toks, ps)), <<>>)
    ELSE expression(toks, ps)

control_expression(toks, ps) ==
    IF IsNone(parser_peek(toks, ps))
    THEN R(ps, NoExpr, "Unexpected EOF")
    ELSE
    CASE Unwrap(parser_peek(toks, ps)).token_type = "While" ->
            Then(expression(toks, advance(toks, ps)), LAMBDA cond :
              IF ~matches(toks, cond.ps, {"Colon"})
              THEN R(cond.ps, NoExpr, "Expected colon after while condition")
              ELSE Then(body(toks, advance(toks, cond.ps)), LAMBDA b :
                     R(b.ps, While(cond.expr, b.expr), "ok")))
      [] Unwrap(parser_peek(toks, ps)).token_type = "If" ->
            Then(expression(toks, advance(toks, ps)), LAMBDA cond :
              IF ~matches(toks, cond.ps, {"Colon"})
              THEN R(cond.ps, NoExpr, "Expected colon after if condition")
              ELSE Then(body(toks, advance(toks, cond.ps)), LAMBDA if_b :
                     IF ~matches(toks, if_b.ps, {"Else"})
                     THEN R(if_b.ps, If(cond.expr, if_b.expr, None), "ok")
                     ELSE Then(else_branch(toks, advance(toks, if_b.ps)),
                               LAMBDA else_b :
                                 R(else_b.ps,
                                   If(cond.expr, if_b.expr, Some(else_b.expr)),
                                   "ok"))))
      [] OTHER -> pipeline(toks, ps)

\* declaration(), lines 192-202: the loop neither advances nor changes
\* anything, so it ends at once or never
declaration_wait(toks, ps) ==
    IF IsSome(parser_peek(toks, ps))
       /\ Unwrap(parser_peek(toks, ps)).token_type = "Equal"
    THEN "ok"
    ELSE IF IsNone(parser_peek(toks, ps))
    THEN "Unexpected EOF"
    ELSE "loop"

\* declaration(), lines 192-207: ps is the Parser past the ":"
declaration_init(toks, ps, expr) ==
    IF declaration_wait(toks, ps) # "ok"
    THEN R(ps, NoExpr, declaration_wait(toks, ps))
    ELSE IF matches(toks, ps, {"Equal"})
    THEN Then(expression(toks, advance(toks, ps)), LAMBDA init :
           R(init.ps, Declaration(expr, Some(init.expr)), "ok"))
    ELSE R(ps, Declaration(expr, None), "ok")

declaration(toks, ps, expr) ==
    IF matches(toks, ps, {"Colon"})
    THEN declaration_init(toks, advance(toks, ps), expr)
    ELSE R(ps, expr, "ok")

assignment(toks, ps, expr) ==
    IF matches(toks, ps, {"Equal"})
    THEN Then(expression(toks, advance(toks, ps)), LAMBDA value :
           R(value.ps, Assignment(expr, value.expr), "ok"))
    ELSE R(ps, expr, "ok")

\* statement(), lines 174-186: the statement's end
terminated(toks, ps, expr) ==
    LET semi == matches_over_line(toks, ps, "Semicolon")
        eof == matches_over_line(toks, ps, "EndOfFile")
    IN  IF semi.matched THEN R(semi.ps, expr, "ok")
        ELSE IF eof.matched THEN R(eof.ps, expr, "ok")
        ELSE IF IsNone(previous(toks, ps))
        THEN R(ps, NoExpr, "index out of bounds")
        ELSE IF Unwrap(previous(toks, ps)).token_type
                  \in {"EndBlock", "Semicolon"}
        THEN R(ps, expr, "ok")
        ELSE R(ps, NoExpr, "Expected semicolon")

\* statement(), lines 158-173
formed(toks, e) ==
    IF check(toks, e.ps, "Colon")
    THEN IF ~(e.expr.kind = "Literal" /\ e.expr.value.tag = "Identifier")
         THEN R(e.ps, NoExpr, "Invalid LHS of declaration")
         ELSE declaration(toks, e.ps, e.expr)
    ELSE IF check(toks, e.ps, "Equal")
    THEN assignment(toks, e.ps, e.expr)
    ELSE e

statement(toks, ps) ==
    IF IsNone(parser_peek(toks, ps))
    THEN R(ps, NoExpr, "Should have token")
    ELSE Then(expression(toks,
                [ps EXCEPT !.col = Unwrap(parser_peek(toks, ps)).location.col]),
              LAMBDA e : Then(formed(toks, e),
                              LAMBDA s : terminated(toks, s.ps, s.expr)))

expression(toks, ps) == control_expression(toks, ps)

pipeline(toks, ps) ==
    Then(logical_or(toks, ps), LAMBDA e : pipeline_rest(toks, e.ps, e.expr))

\* pipeline(), lines 226-235
piped(toks, expr, f) ==
    IF f.expr.kind = "FunctionCall"
    THEN pipeline_rest(toks, f.ps,
                       FunctionCall(f.expr.id, <<expr>> \o f.expr.args))
    ELSE IF f.expr.kind = "Literal" /\ f.expr.value.tag = "Identifier"
    THEN pipeline_rest(toks, f.ps, FunctionCall(f.expr, <<expr>>))
    ELSE R(f.ps, NoExpr, "Expected function call in pipeline")

\* pipeline(), lines 225-236
pipeline_rest(toks, ps, expr) ==
    IF ~matches_over_line(toks, ps, "Pipeline").matched
    THEN R(ps, expr, "ok")
    ELSE Then(logical_or(toks, matches_over_line(toks, ps, "Pipeline").ps),
              LAMBDA f : piped(toks, expr, f))

logical_or(toks, ps) ==
    Then(logical_and(toks, ps), LAMBDA e : logical_or_rest(toks, e.ps, e.expr))

\* logical_or(), lines 242-251
logical_or_rest(toks, ps, expr) ==
    LET m == matches_continued(toks, ps, "OrOr")
    IN  IF ~m.matched THEN R(ps, expr, "ok")
        ELSE Then(logical_and(toks, m.ps), LAMBDA rhs :
               logical_or_rest(toks, rhs.ps,
                 Binary(expr, Unwrap(previous(toks, m.ps)), rhs.expr)))

logical_and(toks, ps) ==
    Then(equality(toks, ps), LAMBDA e : logical_and_rest(toks, e.ps, e.expr))

\* logical_and(), lines 257-266
logical_and_rest(toks, ps, expr) ==
    LET m == matches_continued(toks, ps, "AndAnd")
    IN  IF ~m.matched THEN R(ps, expr, "ok")
        ELSE Then(equality(toks, m.ps), LAMBDA rhs :
               logical_and_rest(toks, rhs.ps,
                 Binary(expr, Unwrap(previous(toks, m.ps)), rhs.expr)))

equality(toks, ps) ==
    Then(comparison(toks, ps), LAMBDA e : equality_rest(toks, e.ps, e.expr))

\* equality(), lines 272-276
equality_rest(toks, ps, expr) ==
    IF ~matches(toks, ps, {"EqualEqual", "BangEqual"})
    THEN R(ps, expr, "ok")
    ELSE Then(comparison(toks, advance(toks, ps)), LAMBDA rhs :
           equality_rest(toks, rhs.ps,
                         Binary(expr, toks[ps.index + 1], rhs.expr)))

comparison(toks, ps) ==
    Then(term(toks, ps), LAMBDA e : comparison_rest(toks, e.ps, e.expr))

\* comparison(), lines 282-291
comparison_rest(toks, ps, expr) ==
    IF ~matches(toks, ps, {"Greater", "GreaterEqual", "Less", "LessEqual"})
    THEN R(ps, expr, "ok")
    ELSE Then(term(toks, advance(toks, ps)), LAMBDA rhs :
           comparison_rest(toks, rhs.ps,
                           Binary(expr, toks[ps.index + 1], rhs.expr)))

term(toks, ps) ==
    Then(factor(toks, ps), LAMBDA e : term_rest(toks, e.ps, e.expr))

\* term(), lines 297-301
term_rest(toks, ps, expr) ==
    IF ~matches(toks, ps, {"Minus", "Plus"})
    THEN R(ps, expr, "ok")
    ELSE Then(factor(toks, advance(toks, ps)), LAMBDA rhs :
           term_rest(toks, rhs.ps, Binary(expr, toks[ps.index + 1], rhs.expr)))

factor(toks, ps) ==
    Then(unary(toks, ps), LAMBDA e : factor_rest(toks, e.ps, e.expr))

\* factor(), lines 307-316
factor_rest(toks, ps, expr) ==
    IF ~matches(toks, ps, {"Star", "Slash", "SlashSlash", "Mod"})
    THEN R(ps, expr, "ok")
    ELSE Then(unary(toks, advance(toks, ps)), LAMBDA rhs :
           factor_rest(toks, rhs.ps,
                       Binary(expr, toks[ps.index + 1], rhs.expr)))

unary(toks, ps) ==
    IF matches(toks, ps, {"Minus", "Bang"})
    THEN Then(unary(toks, advance(toks, ps)), LAMBDA rhs :
           R(rhs.ps, Unary(toks[ps.index + 1], rhs.expr), "ok"))
    ELSE call(toks, ps)

call(toks, ps) ==
    Then(primary(toks, ps), LAMBDA e :
      IF e.expr.kind = "Lambda" THEN e ELSE call_rest(toks, e.ps, e.expr))

\* call(), lines 337-340: ps is the Parser past the "." and the name
named(toks, ps, expr) ==
    IF IsNone(previous(toks, ps))
       \/ Unwrap(previous(toks, ps)).token_type # "Identifier"
    THEN R(ps, NoExpr, "Expected name after dot")
    ELSE call_rest(toks, ps, Get(expr, Unwrap(previous(toks, ps)).lexeme))

\* call(), lines 335-351
call_rest(toks, ps, expr) ==
    IF matches(toks, ps, {"Dot"})
    THEN named(toks, advance(toks, advance(toks, ps)), expr)
    ELSE IF matches(toks, ps, {"Bang"})
    THEN Then(arguments(toks, advance(toks, ps)), LAMBDA a :
           IF expr.kind = "Get"
           THEN call_rest(toks, a.ps,
                  FunctionCall(Literal(IdentifierV(expr.name)),
                               <<expr.e>> \o a.expr))
           ELSE call_rest(toks, a.ps, FunctionCall(expr, a.expr)))
    ELSE R(ps, expr, "ok")

\* arguments(): expr of the result is the Vec<Expr> of the arguments
arguments(toks, ps) ==
    IF matches(toks, ps, {"BeginBlock"})
    THEN arguments_block(toks, advance(toks, ps), <<>>)
    ELSE arguments_line(toks, ps, <<>>)

\* arguments(), lines 358-374
arguments_block(toks, ps, args) ==
    IF matches(toks, ps, {"EndBlock"})
    THEN R(advance(toks, ps), args, "ok")
    ELSE Then(logical_or(toks, ps), LAMBDA a :
           IF matches(toks, a.ps, {"Semicolon"})
           THEN arguments_block(toks, advance(toks, a.ps), Append(args, a.expr))
           ELSE IF IsSome(previous(toks, a.ps))
                   /\ Unwrap(previous(toks, a.ps)).token_type = "Semicolon"
           THEN IF a.ps = ps THEN R(a.ps, NoExpr, "loop")
                ELSE arguments_block(toks, a.ps, Append(args, a.expr))
           ELSE R(a.ps, NoExpr, "Expected semicolon in function call block"))

\* arguments(), lines 376-386
arguments_line(toks, ps, args) ==
    IF matches(toks, ps, {"Semicolon"})
    THEN R(advance(toks, ps), args, "ok")
    ELSE IF check(toks, ps, "Pipeline")
    THEN R(ps, args, "ok")
    ELSE Then(logical_or(toks, ps), LAMBDA a :
           IF a.ps = ps THEN R(a.ps, NoExpr, "loop")
           ELSE arguments_line(toks, a.ps, Append(args, a.expr)))

\* primary(), lines 406-409: ps is the Parser past the token after the
\* expression
paren_closed(toks, ps, expr) ==
    IF IsNone(previous(toks, ps))
    THEN R(ps, NoExpr, "index out of bounds")
    ELSE IF Unwrap(previous(toks, ps)).token_type # "RightParen"
    THEN R(ps, NoExpr, "Unclosed paren")
    ELSE R(ps, Group(expr), "ok")

\* primary(), lines 400-415: ps is the Parser past the token t
primary_of(toks, ps, t) ==
    CASE t.token_type = "String" -> R(ps, Literal(StringV(t.lexeme)), "ok")
      [] t.token_type = "Identifier" ->
            R(ps, Literal(IdentifierV(t.lexeme)), "ok")
      [] t.token_type = "Int" -> R(ps, Literal(IntV(t.int)), "ok")
      [] t.token_type = "LeftParen" ->
            Then(expression(toks, ps), LAMBDA e :
              paren_closed(toks, advance(toks, e.ps), e.expr))
      [] t.token_type = "Plus" -> R(ps, Literal(IdentifierV(<<"+">>)), "ok")
      [] t.token_type = "Fn" -> function_decl(toks, ps)
      [] t.token_type = "Print" -> R(ps, BuiltinFunction(t), "ok")
      [] OTHER -> R(ps, NoExpr, "Unexpected token")

primary(toks, ps) ==
    IF matches(toks, ps, {"False"})
    THEN R(advance(toks, ps), Literal(BoolV(FALSE)), "ok")
    ELSE IF matches(toks, ps, {"True"})
    THEN R(advance(toks, ps), Literal(BoolV(TRUE)), "ok")
    ELSE IF IsNone(previous(toks, advance(toks, ps)))
    THEN R(advance(toks, ps), NoExpr, "index out of bounds")
    ELSE primary_of(toks, advance(toks, ps),
                    Unwrap(previous(toks, advance(toks, ps))))

function_decl(toks, ps) ==
    Then(function_params(toks, ps, <<>>), LAMBDA params :
      IF matches(toks, params.ps, {"BeginBlock"})
      THEN Then(block(toks, advance(toks, params.ps), <<>>), LAMBDA b :
             R(b.ps, Lambda(params.expr, b.expr.exprs), "ok"))
      ELSE Then(expression(toks, params.ps), LAMBDA e :
             R(e.ps, Lambda(params.expr, <<e.expr>>), "ok")))

\* function_decl(), lines 420-422
function_params(toks, ps, args) ==
    IF matches(toks, ps, {"ThinArrow"})
    THEN R(advance(toks, ps), args, "ok")
    ELSE Then(primary(toks, ps), LAMBDA a :
           IF a.ps = ps THEN R(a.ps, NoExpr, "loop")
           ELSE function_params(toks, a.ps, Append(args, a.expr)))

(* The token sequences handed to parse: up to MaxTokens tokens, the i-th    *)
(* at column i of line 0; a Parser that has returned is handed one of up    *)
(* to MaxAgain tokens.  Beside them, the pipelines `x |> f`, `x |> f! a`   *)
(* and the statements continued by an operator at the start of the next    *)
(* line, at columns up to MaxCol.                                           *)

MaxTokens == 5
MaxAgain == 2

Kind(token_type, lexeme, int) ==
    [token_type |-> token_type, lexeme |-> lexeme, int |-> int]

TokenKinds ==
    {Kind("Identifier", <<"x">>, 0), Kind("Int", <<>>, 1),
     Kind("Colon", <<>>, 0), Kind("Equal", <<>>, 0),
     Kind("Semicolon", <<>>, 0), Kind("Bang", <<>>, 0),
     Kind("EndOfFile", <<>>, 0)}

Located(kinds) ==
    [i \in 1..Len(kinds) |->
        Token(kinds[i].token_type, kinds[i].lexeme, kinds[i].int,
              Location(0, i, i))]

TokenSeqs(n) ==
    {Located(kinds) : kinds \in UNION {[1..m -> TokenKinds] : m \in 0..n}}

\* a token of a kind at a line and a column
At(kind, line, col) ==
    Token(kind.token_type, kind.lexeme, kind.int, Location(line, col, col))

Words == {Kind("Identifier", <<"x">>, 0), Kind("Int", <<>>, 1)}
Callees == {Kind("Identifier", <<"f">>, 0), Kind("Print", <<>>, 0)}

\* `x |> f ;` and `x |> f! a... ;`, a of up to one argument
Piped(x, f, bang, a) ==
    <<x, Kind("Pipeline", <<>>, 0), f>>
    \o (IF bang THEN <<Kind("Bang", <<>>, 0)>> \o a ELSE <<>>)
    \o <<Kind("Semicolon", <<>>, 0)>>

\* `f! x a... ;`
Direct(x, f, a) ==
    <<f, Kind("Bang", <<>>, 0), x>> \o a \o <<Kind("Semicolon", <<>>, 0)>>

ArgLists == {<<>>} \cup {<<w>> : w \in Words}

PipedSeqs ==
    {Located(Piped(x, f, TRUE, a)) : x \in Words, f \in Callees, a \in ArgLists}
    \cup {Located(Piped(x, f, FALSE, <<>>)) : x \in Words, f \in Callees}

MaxCol == 2
Continuations == {"OrOr", "AndAnd", "Pipeline"}

\* a statement that begins at column c0 and whose next line begins with an
\* operator at column c1:   x
\*                            || x ;
Continued(c0, op, c1) ==
    <<At(Kind("Identifier", <<"x">>, 0), 0, c0),
      At(Kind("LineEnd", <<>>, 0), 0, c0 + 1),
      At(Kind(op, <<>>, 0), 1, c1),
      At(Kind("Identifier", <<"x">>, 0), 1, c1 + 3),
      At(Kind("Semicolon", <<>>, 0), 1, c1 + 4)>>

ContinuedSeqs ==
    {Continued(c0, op, c1) : c0 \in 0..MaxCol, op \in Continuations,
                             c1 \in 0..MaxCol}

Inputs == TokenSeqs(MaxTokens) \cup PipedSeqs \cup ContinuedSeqs

\* parse(), line 24
Parse ==
    /\ parse_pc \in {"idle", "returned"}
    /\ \E toks \in IF parse_pc = "idle" THEN Inputs
                                         ELSE TokenSeqs(MaxAgain) :
         parser_tokens' = toks
    /\ parse_res' = <<>>
    /\ parse_pc' = "parsing"
    /\ UNCHANGED <<parser, ivars, svars>>

RECURSIVE line_ends_skipped(_, _)
\* parse(), line 27
line_ends_skipped(toks, ps) ==
    IF matches(toks, ps, {"LineEnd"})
    THEN line_ends_skipped(toks, advance(toks, ps))
    ELSE ps

\* parse(), lines 26-30: the turn of the loop that meets EndOfFile
Parse_end_of_file ==
    /\ parse_pc = "parsing"
    /\ IsSome(parser_peek(parser_tokens, parser))
    /\ LET ps == line_ends_skipped(parser_tokens, parser)
       IN  /\ matches(parser_tokens, ps, {"EndOfFile"})
           /\ parser' = advance(parser_tokens, ps)
    /\ parse_pc' = "returned"
    /\ UNCHANGED <<parser_tokens, parse_res, ivars, svars>>

\* parse(), line 31: s is what statement() made
Push_statement(s) ==
    /\ parser' = s.ps
    /\ parse_pc' = IF s.status = "ok" THEN "parsing" ELSE s.status
    /\ parse_res' = IF s.status = "ok" THEN Append(parse_res, s.expr)
                                        ELSE parse_res

\* parse(), lines 26-31: a turn of the loop that parses a statement
Parse_statement ==
    /\ parse_pc = "parsing"
    /\ IsSome(parser_peek(parser_tokens, parser))
    /\ ~matches(parser_tokens, line_ends_skipped(parser_tokens, parser),
                {"EndOfFile"})
    /\ Push_statement(statement(parser_tokens,
                                line_ends_skipped(parser_tokens, parser)))
    /\ UNCHANGED <<parser_tokens, ivars, svars>>

\* parse(), lines 26 and 33
Parse_return ==
    /\ parse_pc = "parsing"
    /\ IsNone(parser_peek(parser_tokens, parser))
    /\ parse_pc' = "returned"
    /\ UNCHANGED <<parser_tokens, parser, parse_res, ivars, svars>>

Parser_default ==
    /\ parser = Parser_new
    /\ parser_tokens = <<>>
    /\ parse_res = <<>>
    /\ parse_pc = "idle"

----------------------------------------------------------------------------
(* The programs of operators, loops and print supplied to evaluate *)

Op(token_type) == Token(token_type, <<>>, 0, Location(0, 0, 0))

Bool(b) == Literal(BoolV(b))
print_call(args) == FunctionCall(BuiltinFunction(Op("Print")), args)
Succ(n) == Binary(Id(n), Op("Plus"), Num(1))

WhileStmts ==
    {While(Id("b"), Assignment(Id("b"), Bool(FALSE))),
     While(Id("b"), Assignment(Id("b"), Num(0))),
     While(Binary(Id("x"), Op("Less"), Num(1)), Assignment(Id("x"), Succ("x")))}

WriteStmts == {print_call(<<Id("x")>>), print_call(<<Num(1), Id("b")>>)}

OperatorStmts ==
    {Binary(Bool(FALSE), Op("AndAnd"), Assignment(Id("b"), Bool(TRUE))),
     Binary(Bool(TRUE), Op("OrOr"), Id("x")),
     Binary(Succ("x"), Op("EqualEqual"), Num(2)),
     Unary(Op("Minus"), Id("x")),
     Group(Id("b"))}

ScopeStmts ==
    {Block, If(Id("b"), Block, Some(Id("x"))),
     Declaration(Id("f"), Some(Lambda(<<>>, <<print_call(<<Id("x")>>)>>))),
     FunctionCall(Id("f"), <<>>)}

EvalStmts ==
    {Declaration(Id("x"), Some(Num(0))), Declaration(Id("b"), Some(Bool(TRUE))),
     Assignment(Id("x"), Succ("x")), Id("x")}
    \cup WhileStmts \cup WriteStmts \cup OperatorStmts \cup ScopeStmts

----------------------------------------------------------------------------
(* The three stages of a Compiler *)

Interpreter_new ==
    /\ environment = Environment_default
    /\ stack = <<>>
    /\ status = "ok"
    /\ ret = None
    /\ steps = 0
    /\ last_call = None
    /\ last_expr = [kind |-> "None"]
    /\ results = <<>>
    /\ output = <<>>

Init == Interpreter_new /\ Scanner_default /\ Parser_default

Next ==
    \/ \E expr \in Stmts : Interpret_literal(expr)
    \/ \E expr \in Stmts : Interpret_decl(expr)
    \/ \E expr \in Stmts : Interpret_assignment(expr)
    \/ \E expr \in Stmts : Interpret_block(expr)
    \/ Exit_block
    \/ \E expr \in Stmts : Interpret_if(expr)
    \/ \E expr \in Stmts : Interpret_call(expr)
    \/ Return_call

Spec == Init /\ [][Next]_vars

NextEval ==
    \/ \E expr \in EvalStmts : Interpret_literal(expr)
    \/ \E expr \in EvalStmts : Interpret_decl(expr)
    \/ \E expr \in EvalStmts : Interpret_assignment(expr)
    \/ \E expr \in EvalStmts : Interpret_operator(expr)
    \/ \E expr \in EvalStmts : Interpret_while(expr)
    \/ While_turn
    \/ \E expr \in EvalStmts : Interpret_builtin(expr)
    \/ \E expr \in EvalStmts : Interpret_block(expr)
    \/ Exit_block
    \/ \E expr \in EvalStmts : Interpret_if(expr)
    \/ \E expr \in EvalStmts : Interpret_call(expr)
    \/ Return_call

SpecEval == Init /\ [][NextEval]_vars

NextScan ==
    \/ Scan
    \/ Scan_char
    \/ Scan_return

SpecScan == Init /\ [][NextScan]_vars

\* one Scanner, as a Compiler holds it, scanning one text after another
NextRescan ==
    \/ Scan
    \/ Scan_char
    \/ Scan_return
    \/ Scan_again

SpecRescan == Init /\ [][NextRescan]_vars

NextParse ==
    \/ Parse
    \/ Parse_end_of_file
    \/ Parse_statement
    \/ Parse_return

SpecParse == Init /\ [][NextParse]_vars

----------------------------------------------------------------------------
(* Shapes of steps and scope chains, for the properties below *)

InBlock == stack # <<>> /\ Top.kind = "Block"

\* interpret() took a statement of kind k in this step
TookStatement(k) ==
    /\ status = "ok"
    /\ last_expr'.kind = k
    /\ IF InCall THEN Top.pc <= Len(Top.body) /\ last_expr' = Top.body[Top.pc]
       ELSE steps' = steps + 1

EnteredCall == Len(stack') = Len(stack) + 1 /\ stack'[Len(stack')].kind = "Call"

IsId(expr) == expr.kind = "Literal" /\ expr.value.tag = "Identifier"

\* the names a lambda's body assigns that are neither parameters nor declared
\* in the body
Range(seq) == {seq[i] : i \in 1..Len(seq)}
ParamNames(func) == {p.value.name : p \in {q \in Range(func.params) : IsId(q)}}
FreeAssigned(func) ==
    {e.lhs.value.name : e \in {b \in Range(func.body) :
                                  b.kind = "Assignment" /\ IsId(b.lhs)}}
    \ (ParamNames(func)
       \cup {e.lhs.value.name : e \in {b \in Range(func.body) :
                                  b.kind = "Declaration" /\ IsId(b.lhs)}})

----------------------------------------------------------------------------
(* C1: a declaration binds its name in the innermost scope only; every      *)
(* enclosing scope (and every suspended caller) is left as it was, and when *)
(* the Block that declared the name exits, the name reads as it did in the  *)
(* enclosing scopes just before the declaration.                            *)
C1_DeclarationIsLocal ==
    [][ /\ (TookStatement("Declaration") /\ status' = "ok"
            /\ IsId(last_expr'.lhs))
          => /\ environment'.parent = environment.parent
             /\ Chain(environment')[1] =
                  insert(environment.values, last_expr'.lhs.value.name,
                         Unwrap(ret'))
             /\ \A i \in 1..Len(stack) : stack'[i].kind = stack[i].kind
             /\ \A i \in 1..Len(stack) :
                  stack[i].kind = "Call" => stack'[i].old_env = stack[i].old_env
        /\ (InBlock /\ last_expr'.kind = "ExitBlock" /\ Len(stack') < Len(stack))
          => \A n \in DOMAIN Top.outer : get(environment', n) = Top.outer[n]
      ]_vars

\* a Block nested in a Block has redeclared x, which the enclosing scopes bind
\* to another value
C1_Witness ==
    /\ Len(stack) = 2 /\ InBlock /\ stack[1].kind = "Block"
    /\ status = "ok"
    /\ last_expr.kind = "Declaration"
    /\ "x" \in DOMAIN Top.outer
    /\ IsSome(Top.outer["x"])
    /\ "x" \in DOMAIN environment.values
    /\ environment.values["x"] # Unwrap(Top.outer["x"])
    /\ get(Unwrap(environment.parent), "x") = Top.outer["x"]

----------------------------------------------------------------------------
(* C2: an assignment changes the binding of its name in the innermost scope *)
(* of the chain that binds it and nothing else; when no scope binds the     *)
(* name it fails and the chain is left as it was.                           *)
Binders(env, name) == {i \in 1..Len(Chain(env)) : name \in DOMAIN Chain(env)[i]}
Nearest(env, name) ==
    CHOOSE i \in Binders(env, name) : \A j \in Binders(env, name) : i <= j

C2_AssignmentSetsNearest ==
    [][ (/\ TookStatement("Assignment")
         /\ IsId(last_expr'.lhs)
         /\ interpret_resolved(environment, last_expr'.value).status = "ok")
          => LET name == last_expr'.lhs.value.name
                 value == interpret_resolved(environment, last_expr'.value).value
             IN  IF Binders(environment, name) = {}
                 THEN /\ status' = "Error assigning to undefined variable"
                      /\ environment' = environment
                 ELSE /\ status' = "ok"
                      /\ Len(Chain(environment')) = Len(Chain(environment))
                      /\ \A i \in 1..Len(Chain(environment)) :
                           Chain(environment')[i] =
                             IF i = Nearest(environment, name)
                             THEN [Chain(environment)[i] EXCEPT ![name] = value]
                             ELSE Chain(environment)[i]
      ]_vars

\* inside a Block that does not bind x, an assignment has just changed the x of
\* an enclosing scope
C2_Witness ==
    /\ InBlock /\ status = "ok"
    /\ last_expr.kind = "Assignment"
    /\ IsId(last_expr.lhs) /\ last_expr.lhs.value.name = "x"
    /\ last_expr.value = Num(1)
    /\ "x" \notin DOMAIN environment.values
    /\ get(environment, "x") = Some(IntV(1))

----------------------------------------------------------------------------
(* C3: the second of two consecutive calls of a lambda whose body assigns a *)
(* free variable x starts with the x the first call left.                   *)
C3_SecondCallSeesFirstWrite ==
    [][ (/\ EnteredCall
         /\ IsSome(last_call)
         /\ stack'[Len(stack')].func = Unwrap(last_call).func)
          => \A n \in FreeAssigned(Unwrap(last_call).func) :
                get(environment', n) = get(Unwrap(last_call).env, n)
      ]_vars

----------------------------------------------------------------------------
----------------------------------------------------------------------------
(* C5: a call runs the body in a fresh scope that binds the parameters to   *)
(* the arguments' values, taken in the caller's scope, and whose parent is  *)
(* the lambda's captured scope: a name only the caller's scope binds is     *)
(* undefined in the body.                                                   *)
RECURSIVE Bound_args(_, _, _, _)
\* the parameter bindings of a call, the arguments read in env
Bound_args(env, params, args, i) ==
    IF i > Len(params) \/ i > Len(args)
    THEN EmptyValues
    ELSE LET rest == Bound_args(env, params, args, i + 1)
             arg == args[i].value
         IN  IF params[i].value.name \in DOMAIN rest
             THEN rest
             ELSE insert(rest, params[i].value.name,
                         IF arg.tag = "Identifier"
                         THEN Unwrap(get(env, arg.name))
                         ELSE arg)

C5_LexicalScoping ==
    [][ EnteredCall
          => LET func == Unwrap(get(environment, last_expr'.id.value.name))
             IN  /\ environment'.parent = Some(func.closure)
                 /\ environment'.values =
                      Bound_args(environment, func.params, last_expr'.args, 1)
                 /\ \A n \in Names \ ParamNames(func) :
                      IsNone(get(func.closure, n)) => IsNone(get(environment', n))
      ]_vars

\* a body is about to run with its parameter bound, and a name the caller's
\* scope binds is undefined in it
C5_Witness ==
    /\ InCall /\ status = "ok"
    /\ Top.pc = 1
    /\ last_expr = FunctionCall(Id("f"), <<Id("x")>>)
    /\ DOMAIN environment.values = {"y"}
    /\ Some(environment.values["y"]) = get(Top.old_env, "x")
    /\ IsNone(get(environment, "x"))

----------------------------------------------------------------------------
(* C10: an If whose condition is not a Bool fails and evaluates neither     *)
(* branch.                                                                  *)
C10_NonBoolConditionIsFatal ==
    [][ (/\ TookStatement("If")
         /\ interpret_resolved(environment, last_expr'.cond).status = "ok"
         /\ interpret_resolved(environment, last_expr'.cond).value.tag # "Bool")
          => /\ status' # "ok"
             /\ environment' = environment
             /\ Len(stack') = Len(stack)
      ]_vars

----------------------------------------------------------------------------
(* Shapes of the scanner's steps, for the properties below *)

TypesOf(toks) == [i \in 1..Len(toks) |-> toks[i].token_type]
CountOf(toks, token_type) ==
    Cardinality({i \in 1..Len(toks) : toks[i].token_type = token_type})

\* this step scanned the first token of a line and the scan went on
ScannedFirstTokenOfLine ==
    /\ scan_pc = "scanning" /\ scan_pc' = "scanning"
    /\ curr_loc'.index > curr_loc.index
    /\ stream[curr_loc.index + 1] \notin Whitespace
    /\ (tokens = <<>> \/ tokens[Len(tokens)].location.line < curr_loc.line)

\* the tokens this step emitted
Emitted == SubSeq(tokens', Len(tokens) + 1, Len(tokens'))

\* the column of the token that starts at curr_loc, as the scanner counts it
TokenCol == curr_loc.col + 1

\* this step opened a block: a `:` of an earlier line was pending
OpenedBlock == IsSome(open_block) /\ Unwrap(open_block).line # curr_loc.line

----------------------------------------------------------------------------
(* C6: the token sequence scan returns ends with the end-of-file token.     *)
C6_ScanEndsWithEndOfFile ==
    scan_pc = "returned"
      => /\ scanned # <<>>
         /\ scanned[Len(scanned)].token_type = "EndOfFile"

----------------------------------------------------------------------------
(* C7: when scan returns, no indentation level is open and the returned     *)
(* sequence has as many EndBlock tokens as BeginBlock tokens.               *)
C7_AllBlocksClosedAtEnd ==
    scan_pc = "returned"
      => /\ block_levels = <<>>
         /\ CountOf(scanned, "EndBlock") = CountOf(scanned, "BeginBlock")

----------------------------------------------------------------------------
----------------------------------------------------------------------------
(* parse *)

\* C9: for every finite token sequence parse terminates, returning the
\* statement list or raising a fatal parse error: it is never left in a
\* loop it cannot leave, as by a declaration whose ":" is not followed at
\* once by "=" (x : y).
C9_ParseTerminates == parse_pc # "loop"

----------------------------------------------------------------------------
(* Loops, operators and the sink *)

\* this step evaluated the condition of a While: on entering the loop, or
\* after a turn of its body
EvaluatedCondition ==
    /\ status = "ok"
    /\ IF InWhile THEN last_expr'.kind = "WhileTurn" ELSE TookStatement("While")

\* what the condition evaluated to, or the panic of the body or of the
\* condition
ConditionResult ==
    IF InWhile THEN While_body(environment, Top.cond, Top.body)
    ELSE interpret_resolved(environment, last_expr'.cond)

\* C11: a While evaluates its condition before every iteration; on
\* Bool(true) the loop goes on with what the body and the condition left, on
\* Bool(false) it stops with Bool(false), and on a value that is not a Bool
\* the evaluation fails fatally.
C11_WhileConditionMustBeBool ==
    [][ (EvaluatedCondition /\ ConditionResult.status = "ok")
          => LET cond_val == ConditionResult.value
             IN  IF cond_val.tag # "Bool"
                 THEN status' # "ok"
                 ELSE /\ status' = "ok"
                      /\ environment' = ConditionResult.env
                      /\ IF cond_val.b
                         THEN stack' # <<>> /\ stack'[Len(stack')].kind = "While"
                         ELSE /\ ret' = Some(BoolV(FALSE))
                              /\ stack' = IF InWhile THEN Pop ELSE Taken
      ]_vars

----------------------------------------------------------------------------
(* The statements parse returns *)

\* the nodes directly below a node
Children(expr) ==
    CASE expr.kind \in {"Declaration"} -> {expr.lhs} \cup Range(expr.init)
      [] expr.kind = "Assignment" -> {expr.lhs, expr.value}
      [] expr.kind = "Binary" -> {expr.lhs, expr.rhs}
      [] expr.kind \in {"Unary", "Group", "Get"} -> {expr.e}
      [] expr.kind = "FunctionCall" -> {expr.id} \cup Range(expr.args)
      [] expr.kind = "Block" -> Range(expr.exprs)
      [] expr.kind = "While" -> {expr.cond, expr.body}
      [] expr.kind = "If" ->
            {expr.cond, expr.true_branch} \cup Range(expr.false_branch)
      [] expr.kind = "Lambda" -> Range(expr.params) \cup Range(expr.body)
      [] OTHER -> {}

RECURSIVE Nodes(_)
\* the nodes of a tree
Nodes(expr) == {expr} \cup UNION {Nodes(c) : c \in Children(expr)}

\* C12: no Declaration or Assignment node that parse returns has a target
\* other than a bare Identifier: a statement `lhs := e` or `lhs = e` with
\* another lhs is a fatal parse error.
C12_TargetsAreIdentifiers ==
    \A i \in 1..Len(parse_res) :
        \A node \in Nodes(parse_res[i]) :
            node.kind \in {"Declaration", "Assignment"} => IsId(node.lhs)

\* two call nodes are the same call: the same callee (a builtin is its
\* token's type, wherever the token stands) and the same arguments
same_call(a, b) ==
    /\ a.kind = "FunctionCall" /\ b.kind = "FunctionCall"
    /\ a.args = b.args
    /\ IF a.id.kind = "BuiltinFunction"
       THEN b.id.kind = "BuiltinFunction"
            /\ a.id.token.token_type = b.id.token.token_type
       ELSE a.id = b.id

\* the first statement of parser_tokens has been parsed, or has panicked
FirstStatementDone == parse_pc # "idle" /\ (parse_pc # "parsing" \/ parse_res # <<>>)

PipedAs(x, f, bang, a) ==
    FirstStatementDone /\ parser_tokens = Located(Piped(x, f, bang, a))

\* C13: parsing `x |> f` yields the call node of the direct call `f! x`, and
\* parsing `x |> f! a...` the call node of the direct call `f! x a...`, for
\* every operand x, callee f and argument list a.
C13_PipelineIsDirectCall ==
    \A x \in Words, f \in Callees, bang \in BOOLEAN, a \in ArgLists :
        (PipedAs(x, f, bang, a) /\ (bang \/ a = <<>>))
          => /\ parse_pc \in {"parsing", "returned"}
             /\ parse_res # <<>>
             /\ same_call(parse_res[1],
                          statement(Located(Direct(x, f, a)), Parser_new).expr)

ContinuedAs(c0, op, c1) ==
    FirstStatementDone /\ parser_tokens = Continued(c0, op, c1)

\* the operator of the next line became part of the first statement
Consumed ==
    /\ parse_pc \in {"parsing", "returned"}
    /\ parse_res # <<>>
    /\ parse_res[1].kind \in {"Binary", "FunctionCall"}

Last(seq) == seq[Len(seq)]

\* the value the top-level statement taken in this step must yield
Yields(expr, value) ==
    CASE IsId(expr) -> value = Unwrap(get(environment, expr.value.name))
      [] expr.kind = "Declaration" ->
            /\ value = Unwrap(get(environment', expr.lhs.value.name))
            /\ value = interpret_resolved(environment, Unwrap(expr.init)).value
            /\ expr.init[1].kind = "Literal" /\ ~IsId(expr.init[1])
                 => value = expr.init[1].value
      [] expr.kind = "Assignment" ->
            /\ value = Unwrap(get(environment', expr.lhs.value.name))
            /\ value = interpret_resolved(environment, expr.value).value
      [] OTHER -> TRUE

\* C16: evaluate collects exactly one value for every top-level statement
\* that finishes, in statement order, and none for anything else; no value
\* is an unresolved Identifier; a bare name yields the value bound to it, a
\* declaration the value of its initializer, an assignment the value
\* assigned.
C16_OneValuePerStatement ==
    [][ IF status' = "ok" /\ stack' = <<>>
        THEN /\ results' = Append(results, Last(results'))
             /\ Last(results').tag # "Identifier"
             /\ stack = <<>> => Yields(last_expr', Last(results'))
        ELSE results' = results
      ]_vars

\* x := 0; x = x + 1; x  has returned 0, 1, 1
C16_Witness ==
    /\ status = "ok" /\ stack = <<>>
    /\ last_expr = Id("x")
    /\ Len(results) >= 3
    /\ SubSeq(results, Len(results) - 2, Len(results))
         = <<IntV(0), IntV(1), IntV(1)>>

\* interpret() took a call of the print builtin in this step
TookPrint ==
    /\ TookStatement("FunctionCall")
    /\ last_expr'.id.kind = "BuiltinFunction"
    /\ last_expr'.id.token.token_type = "Print"

\* every argument of the call has a value
ArgumentsEvaluate(args) ==
    \A k \in 1..Len(args) : interpret_resolved(environment, args[k]).status = "ok"

\* C17: the sink is written by print only: a print call whose arguments
\* have all been evaluated appends exactly one line, the resolved values of
\* its arguments in order, after the lines of the earlier calls; a print
\* call with an argument that fails, and every other step (declaration,
\* assignment, block, if, while, lambda call, return), leaves the sink as
\* it is.
C17_OnlyPrintWrites ==
    [][ IF TookPrint /\ ArgumentsEvaluate(last_expr'.args)
        THEN /\ status' = "ok"
             /\ output' = Append(output,
                    [k \in 1..Len(last_expr'.args) |->
                       interpret_resolved(environment, last_expr'.args[k]).value])
             /\ \A k \in 1..Len(Last(output')) :
                    Last(output')[k].tag # "Identifier"
        ELSE output' = output
      ]_vars

\* x := 0; print! x; b := true; print! 1 b  has written two lines
C17_Witness ==
    /\ output = << <<IntV(0)>>, <<IntV(1), BoolV(TRUE)>> >>
    /\ last_expr = print_call(<<Num(1), Id("b")>>)

Logical == {"AndAnd", "OrOr"}

\* C18: `a && b` and `a || b` do not short-circuit: the left operand is
\* evaluated and resolved, then the right one in the environment the left
\* one leaves, whatever the left value is; the side effects of the right
\* operand stay, and a right operand that is not a Bool is a fatal type
\* error even after `false &&` or `true ||`.
C18_BothOperandsEvaluated ==
    [][ (TookStatement("Binary") /\ last_expr'.op.token_type \in Logical)
          => LET e == last_expr'
                 l == interpret_resolved(environment, e.lhs)
                 r == interpret_resolved(l.env, e.rhs)
             IN  l.status = "ok"
                   => IF r.status # "ok" THEN status' = r.status
                      ELSE IF l.value.tag # "Bool" \/ r.value.tag # "Bool"
                      THEN status' = "Type error"
                      ELSE /\ status' = "ok"
                           /\ environment' = r.env
                           /\ ret' = Some(BoolV(IF e.op.token_type = "AndAnd"
                                                THEN l.value.b /\ r.value.b
                                                ELSE l.value.b \/ r.value.b))
                           /\ e.rhs.kind = "Assignment"
                                => get(environment', e.rhs.lhs.value.name)
                                     = Some(r.value)
      ]_vars

\* `true || x` with x an Int has panicked, though true decides
C18_Witness ==
    /\ status = "Type error"
    /\ last_expr = Binary(Bool(TRUE), Op("OrOr"), Id("x"))
    /\ IsSome(get(environment, "x"))
    /\ Unwrap(get(environment, "x")).tag = "Int"

\* the frame on top of the stack was left in this step
LeftFrame == status = "ok" /\ Len(stack') < Len(stack)

\* C19: when a Block or the call of a lambda completes, the scope chain has
\* the depth it had when the construct began and every scope on it binds
\* the names it bound then: what the Block or the call frame declared is
\* gone.
C19_ScopesRestored ==
    [][ /\ (LeftFrame /\ InBlock)
             => status' = "ok" /\ Shape(environment') = Top.entered
        /\ (LeftFrame /\ InCall)
             => status' = "ok" /\ Shape(environment') = Shape(Top.old_env)
      ]_vars

\* a call has returned and a name its frame bound is not visible
C19_Witness ==
    /\ status = "ok"
    /\ last_expr.kind = "Return"
    /\ IsSome(last_call)
    /\ \E n \in DOMAIN Unwrap(last_call).env.values :
          IsNone(get(environment, n))

----------------------------------------------------------------------------
(* The lexemes and the levels of the scanner *)

\* the tokens of this scan: those returned and those not yet drained
AllTokens == scanned \o tokens

OneClass(lexeme) ==
    \/ \A i \in 1..Len(lexeme) : identifier_character(lexeme[i])
    \/ \A i \in 1..Len(lexeme) : identifier_symbol(lexeme[i])

\* C15: the lexeme of every token made by identifier scanning consists of
\* characters of one class only, letters, digits and underscore or the
\* symbol alphabet: it holds no whitespace and no character outside both.
C15_LexemesAreOfOneClass ==
    \A i \in 1..Len(AllTokens) :
        AllTokens[i].token_type = "Identifier" => OneClass(AllTokens[i].lexeme)

----------------------------------------------------------------------------
(* C20: at every point of a scan the open indentation levels are strictly   *)
(* increasing from bottom to top, their number is the number of BeginBlock  *)
(* tokens emitted so far minus the number of EndBlock tokens emitted so     *)
(* far, and no prefix of the tokens has more EndBlock than BeginBlock.      *)
C20_LevelsMatchBlockTokens ==
    /\ \A i \in 1..(Len(block_levels) - 1) : block_levels[i] < block_levels[i + 1]
    /\ Len(block_levels) = CountOf(AllTokens, "BeginBlock")
                             - CountOf(AllTokens, "EndBlock")
    /\ \A n \in 0..Len(AllTokens) :
          CountOf(SubSeq(AllTokens, 1, n), "EndBlock")
            <= CountOf(SubSeq(AllTokens, 1, n), "BeginBlock")

\* two blocks were opened and the inner one has been closed
C20_Witness ==
    /\ scan_pc = "scanning"
    /\ Len(block_levels) = 1
    /\ CountOf(AllTokens, "BeginBlock") = 2
    /\ CountOf(AllTokens, "EndBlock") = 1

----------------------------------------------------------------------------
(* C21: what scan returns depends on the text only: on a Scanner that has   *)
(* scanned before it returns the token types a new Scanner returns for the  *)
(* same text, and it panics only where a new Scanner panics.                *)
C21_ScanDependsOnTextOnly ==
    /\ scan_pc = "returned"
         => /\ scan_from(Scanner_new, stream).failed = "ok"
            /\ TypesOf(scanned) = TypesOf(scan_from(Scanner_new, stream).tokens)
    /\ scan_pc \notin {"idle", "scanning", "returned"}
         => scan_from(Scanner_new, stream).failed = scan_pc

====
